---- MODULE Spec2Model ----
(***************************************************************************)
(* The reactive state of the suicide-rate dashboard (src/app_unified.py): *)
(* the Dash component properties that the callbacks read and write, and   *)
(* one action per user gesture or timer event, each applying the callback *)
(* that the gesture triggers.                                             *)
(*                                                                         *)
(* Strings that the code takes apart (component ids, hover text) are       *)
(* sequences of fragments; a state name, a band name and the separator     *)
(* "<br>" are one fragment each.  A property that Dash passes as None      *)
(* because the layout does not set it is None (strings) or NoCount         *)
(* (counters).                                                             *)
(*                                                                         *)
(* The source table is held as region_code and rates; rates are integers   *)
(* in tenths.  views holds what the derivation callbacks (map, detail      *)
(* stats, ranking, regional chart) last returned; each action re-runs the  *)
(* callbacks whose Inputs it changes.  The actions of the section          *)
(* "requests and answers" split a callback into the moment the page sends  *)
(* its Input and State values and the moment the answer is written.        *)
(***************************************************************************)
EXTENDS Integers, Sequences, FiniteSets, TLC

(* ---------------------------------------------------------------- bounds *)
MaxPlayClicks == 2      \* play-button gestures per session
MaxIntervals == 2       \* timer ticks per session
NumStates == 3          \* rows of STATE_ABBREV the model keeps
NumLegend == 2          \* legend items clicked in the combined specification
MaxPending == 1         \* callback requests sent and not yet answered
MaxCycles == 2          \* turns of the year cycle the tick counter tells apart

(* ------------------------------------------------------------- constants *)
None == "None"
NoCount == -1

BAND_ORDER == <<"< 10", "10-15", "15-20", "20-25", "25-30", "> 30">>

StateRows ==
  << <<"Texas", "TX">>, <<"Ohio", "OH">>, <<"Vermont", "VT">>,
     <<"Alaska", "AK">>, <<"Maine", "ME">> >>

KeptRows == {StateRows[i] : i \in 1..NumStates}

STATE_ABBREV ==
  [s \in {r[1] : r \in KeptRows} |-> (CHOOSE r \in KeptRows : r[1] = s)[2]]

ABBREV_TO_STATE ==
  [a \in {STATE_ABBREV[s] : s \in DOMAIN STATE_ABBREV} |->
     CHOOSE s \in DOMAIN STATE_ABBREV : STATE_ABBREV[s] = a]

\* the states with records in the Dataset Store
DatasetStates == DOMAIN STATE_ABBREV

\* the keys of STATE_ABBREV in the order of the table's rows
StateOrder == [i \in 1..NumStates |-> StateRows[i][1]]

\* the keys of STATE_COORDS that are not in SMALL_STATES, in dict order,
\* and the keys of SMALL_STATES (coordinates are static and left out)
STATE_COORDS == SelectSeq(<<"Alaska", "Maine", "Ohio", "Texas">>,
                          LAMBDA s : s \in DOMAIN STATE_ABBREV)
SMALL_STATES == SelectSeq(<<"Vermont">>, LAMBDA s : s \in DOMAIN STATE_ABBREV)

REGION_NAMES ==
  [c \in {"NE", "MA", "ENC", "WNC", "SA", "ESC", "WSC", "M", "P"} |->
     CASE c = "NE" -> "New England"
       [] c = "MA" -> "Mid-Atlantic"
       [] c = "ENC" -> "East North Central"
       [] c = "WNC" -> "West North Central"
       [] c = "SA" -> "South Atlantic"
       [] c = "ESC" -> "East South Central"
       [] c = "WSC" -> "West South Central"
       [] c = "M" -> "Mountain"
       [] c = "P" -> "Pacific"]

BAND_COLORS ==
  [b \in {"< 10", "10-15", "15-20", "20-25", "25-30", "> 30"} |->
     CASE b = "< 10" -> "#44ce1b"
       [] b = "10-15" -> "#bbdb44"
       [] b = "15-20" -> "#f7e379"
       [] b = "20-25" -> "#f2a134"
       [] b = "25-30" -> "#e51f1f"
       [] b = "> 30" -> "#8e1f1f"]

\* NaN of a pandas column of strings
NaN == "nan"

\* the years of df_suicide_focus; a rate is held in tenths (12.3 is 123)
FocusYears == 2000..2023

SliderYears == 2000..2023
SliderSpeeds == {200 + 100 * k : k \in 0..13}

Range(s) == {s[i] : i \in 1..Len(s)}

\* a function on 1..n as the list of its values
AsList(f) == f \o <<>>

(* ------------------------------------------------------------ the state *)
VARIABLES
  loaded,          \* the page's initial callbacks have run
  active_bands,    \* dcc.Store "active-bands".data
  year,            \* dcc.Slider "year-slider".value
  selected_state,  \* dcc.Store "selected-state".data
  disabled,        \* dcc.Interval "play-interval".disabled
  interval,        \* dcc.Interval "play-interval".interval
  n_clicks,        \* "play-button".n_clicks
  n_intervals,     \* "play-interval".n_intervals
  clickData,       \* "choropleth-map".clickData: <<>> (none) or <<dict>>
  triggered,       \* ctx.triggered_id of the latest callback, as fragments
  region_code,     \* the source table: the bracketed code of each state row
  rates,           \* the source table: the rate of each state and year
  views,           \* what the derivation callbacks last returned
  pending          \* callback requests sent by the page and not yet answered

dataset == <<region_code, rates>>

vars == <<loaded, active_bands, year, selected_state, disabled, interval,
          n_clicks, n_intervals, clickData, triggered, region_code, rates,
          views, pending>>

(* ------------------------------------------------------ callback bodies *)
\* triggered.replace("legend-", "")
replace_legend(triggered_id) ==
  LET rest == SelectSeq(triggered_id, LAMBDA t : t # "legend-")
  IN IF Len(rest) = 1 THEN rest[1] ELSE ""

\* slip: the last active band can be removed
toggle_band_unguarded(triggered_id, current_bands) ==
  IF triggered_id # <<>>
  THEN LET band == replace_legend(triggered_id)
       IN IF band \in Range(current_bands)
          THEN SelectSeq(current_bands, LAMBDA b : b # band)
          ELSE Append(current_bands, band)
  ELSE current_bands

\* slip: len(current_bands) > 2
toggle_band_keeps_two(triggered_id, current_bands) ==
  IF triggered_id # <<>>
  THEN LET band == replace_legend(triggered_id)
       IN IF band \in Range(current_bands)
          THEN IF Len(current_bands) > 2
               THEN SelectSeq(current_bands, LAMBDA b : b # band)
               ELSE current_bands
          ELSE Append(current_bands, band)
  ELSE current_bands

\* slip: current_bands = [band]
toggle_band_replaces(triggered_id, current_bands) ==
  IF triggered_id # <<>>
  THEN LET band == replace_legend(triggered_id)
       IN IF band \in Range(current_bands)
          THEN IF Len(current_bands) > 1
               THEN SelectSeq(current_bands, LAMBDA b : b # band)
               ELSE current_bands
          ELSE <<band>>
  ELSE current_bands

toggle_band(triggered_id, current_bands) ==
  IF triggered_id # <<>>
  THEN LET band == replace_legend(triggered_id)
       IN IF band \in Range(current_bands)
          THEN IF Len(current_bands) > 1
               THEN SelectSeq(current_bands, LAMBDA b : b # band)
               ELSE current_bands
          ELSE Append(current_bands, band)
  ELSE current_bands

\* slip: the initial call enables the timer
toggle_play_autostart(clicks, is_disabled) ==
  IF clicks = NoCount THEN FALSE
  ELSE IF is_disabled THEN FALSE ELSE TRUE

toggle_play(clicks, is_disabled) ==
  IF clicks = NoCount THEN TRUE
  ELSE IF is_disabled THEN FALSE ELSE TRUE

update_speed(speed) == speed

\* slip: current_year > 2023
advance_year_late_wrap(ticks, current_year, is_disabled) ==
  IF is_disabled \/ ticks = NoCount THEN current_year
  ELSE IF current_year > 2023 THEN 2000 ELSE current_year + 1

\* slip: no wrap
advance_year_no_wrap(ticks, current_year, is_disabled) ==
  IF is_disabled \/ ticks = NoCount THEN current_year
  ELSE current_year + 1

\* slip: is_disabled not consulted
advance_year_ignores_disabled(ticks, current_year, is_disabled) ==
  IF ticks = NoCount THEN current_year
  ELSE IF current_year >= 2023 THEN 2000 ELSE current_year + 1

\* slip: the wrap lands on 2001
advance_year_wraps_past_2000(ticks, current_year, is_disabled) ==
  IF is_disabled \/ ticks = NoCount THEN current_year
  ELSE IF current_year >= 2023 THEN 2001 ELSE current_year + 1

advance_year(ticks, current_year, is_disabled) ==
  IF is_disabled \/ ticks = NoCount THEN current_year
  ELSE IF current_year >= 2023 THEN 2000 ELSE current_year + 1

\* str(text).split("<br>")[0]
split_br(text) ==
  IF \E i \in 1..Len(text) : text[i] = "<br>"
  THEN LET first == CHOOSE i \in 1..Len(text) :
                      /\ text[i] = "<br>"
                      /\ \A j \in 1..(i - 1) : text[j] # "<br>"
       IN SubSeq(text, 1, first - 1)
  ELSE text

\* point.get(key) of a click point; a missing key gives the default
get_customdata(point) ==
  IF "customdata" \in DOMAIN point THEN point.customdata ELSE <<>>

get_text(point) ==
  IF "text" \in DOMAIN point THEN point.text ELSE <<>>

get_location(point) ==
  IF "location" \in DOMAIN point THEN point.location ELSE ""

\* slip: the location code is tried before the text
handle_state_click_location_first(triggered_id, map_click, current_state) ==
  LET click_data == IF triggered_id = <<"choropleth-map">> THEN map_click ELSE <<>>
  IN IF click_data = <<>> THEN current_state
     ELSE IF Len(click_data[1].points) = 0 THEN current_state
     ELSE LET point == click_data[1].points[1]
              customdata == get_customdata(point)
              text == get_text(point)
              state_name == split_br(text)
              loc == get_location(point)
          IN IF Len(customdata) > 0 THEN customdata[1]
             ELSE IF loc # "" /\ loc \in DOMAIN ABBREV_TO_STATE
                  THEN ABBREV_TO_STATE[loc]
             ELSE IF /\ \E i \in 1..Len(text) : text[i] = "<br>"
                     /\ Len(state_name) = 1
                     /\ state_name[1] \in DOMAIN STATE_ABBREV
                  THEN state_name[1]
             ELSE current_state

\* slip: a click that resolves to nothing returns None
handle_state_click_clears(triggered_id, map_click, current_state) ==
  LET click_data == IF triggered_id = <<"choropleth-map">> THEN map_click ELSE <<>>
  IN IF click_data = <<>> THEN None
     ELSE IF Len(click_data[1].points) = 0 THEN current_state
     ELSE LET point == click_data[1].points[1]
              customdata == get_customdata(point)
              text == get_text(point)
              state_name == split_br(text)
              loc == get_location(point)
          IN IF Len(customdata) > 0 THEN customdata[1]
             ELSE IF /\ \E i \in 1..Len(text) : text[i] = "<br>"
                     /\ Len(state_name) = 1
                     /\ state_name[1] \in DOMAIN STATE_ABBREV
                  THEN state_name[1]
             ELSE IF loc # "" /\ loc \in DOMAIN ABBREV_TO_STATE
                  THEN ABBREV_TO_STATE[loc]
             ELSE None

\* An empty "points" list raises IndexError at points[0]; Dash then sends
\* no update and the store keeps current_state.
\* slip: the location code is not consulted
handle_state_click_without_location(triggered_id, map_click, current_state) ==
  LET click_data == IF triggered_id = <<"choropleth-map">> THEN map_click ELSE <<>>
  IN IF click_data = <<>> THEN current_state
     ELSE IF Len(click_data[1].points) = 0 THEN current_state
     ELSE LET point == click_data[1].points[1]
              customdata == get_customdata(point)
              text == get_text(point)
              state_name == split_br(text)
          IN IF Len(customdata) > 0 THEN customdata[1]
             ELSE IF /\ \E i \in 1..Len(text) : text[i] = "<br>"
                     /\ Len(state_name) = 1
                     /\ state_name[1] \in DOMAIN STATE_ABBREV
                  THEN state_name[1]
             ELSE current_state

handle_state_click(triggered_id, map_click, current_state) ==
  LET click_data == IF triggered_id = <<"choropleth-map">> THEN map_click ELSE <<>>
  IN IF click_data = <<>> THEN current_state
     ELSE IF Len(click_data[1].points) = 0 THEN current_state
     ELSE LET point == click_data[1].points[1]
              customdata == get_customdata(point)
              text == get_text(point)
              state_name == split_br(text)
              loc == get_location(point)
          IN IF Len(customdata) > 0 THEN customdata[1]
             ELSE IF /\ \E i \in 1..Len(text) : text[i] = "<br>"
                     /\ Len(state_name) = 1
                     /\ state_name[1] \in DOMAIN STATE_ABBREV
                  THEN state_name[1]
             ELSE IF loc # "" /\ loc \in DOMAIN ABBREV_TO_STATE
                  THEN ABBREV_TO_STATE[loc]
             ELSE current_state

(* ------------------------------------------------------ the data table *)
\* get_rate_band with the first threshold inclusive
get_rate_band_inclusive(rate) ==
  IF rate <= 100 THEN "< 10"
  ELSE IF rate < 150 THEN "10-15"
  ELSE IF rate < 200 THEN "15-20"
  ELSE IF rate < 250 THEN "20-25"
  ELSE IF rate < 300 THEN "25-30"
  ELSE "> 30"

get_rate_band(rate) ==
  IF rate < 100 THEN "< 10"
  ELSE IF rate < 150 THEN "10-15"
  ELSE IF rate < 200 THEN "15-20"
  ELSE IF rate < 250 THEN "20-25"
  ELSE IF rate < 300 THEN "25-30"
  ELSE "> 30"

\* Series.map(dict): a key the dict lacks gives NaN
map_region(code) ==
  IF code \in DOMAIN REGION_NAMES THEN REGION_NAMES[code] ELSE NaN

map_abbrev(state) ==
  IF state \in DOMAIN STATE_ABBREV THEN STATE_ABBREV[state] ELSE NaN

\* one row of df_long
LongRow(state, yr) ==
  [State |-> state, Year |-> yr, Rate |-> rates[state][yr],
   Region |-> map_region(region_code[state]),
   Abbrev |-> map_abbrev(state),
   Rate_Band |-> get_rate_band(rates[state][yr])]

\* melt lays the rows out year by year, the states in table order
df_suicide_focus ==
  AsList([i \in 1..(NumStates * 24) |->
     LongRow(StateOrder[((i - 1) % NumStates) + 1], 2000 + ((i - 1) \div NumStates))])

\* df[df["Year"] == year]: the rows of that year, the states in table order
df_of_year(yr) ==
  IF yr \in FocusYears
  THEN AsList([i \in 1..NumStates |-> LongRow(StateOrder[i], yr)])
  ELSE <<>>

\* df[df["State"] == state_name].sort_values("Year")
df_of_state(state_name) ==
  IF state_name \in DatasetStates
  THEN AsList([i \in 1..24 |-> LongRow(state_name, 1999 + i)])
  ELSE <<>>

\* df[(df["State"] == state_name) & (df["Year"] == year)]
df_of_state_year(state_name, yr) ==
  IF state_name \in DatasetStates /\ yr \in FocusYears
  THEN <<LongRow(state_name, yr)>>
  ELSE <<>>

\* a comparison with NaN is False
region_eq(a, b) == a # NaN /\ b # NaN /\ a = b

(* --------------------------------------------------- derivation callbacks *)
\* Python's "not x" on a store value
Falsy(x) == x = None \/ x = ""

\* format(x, ".1f") of a value held in tenths
fmt1(x) ==
  IF x < 0
  THEN <<"-", ToString((-x) \div 10), ".", ToString((-x) % 10)>>
  ELSE <<ToString(x \div 10), ".", ToString(x % 10)>>

hover_text(row) ==
  <<row.State, "<br>", "Rate: ">> \o fmt1(row.Rate)
    \o <<" per 100k", "<br>", "Region: ", row.Region>>

filtered_text(row) == <<row.State, " (filtered)">>

Column(df, f(_)) == AsList([i \in 1..Len(df) |-> f(df[i])])

RECURSIVE Flatten(_)
Flatten(seqs) ==
  IF Len(seqs) = 0 THEN <<>> ELSE Head(seqs) \o Flatten(Tail(seqs))

\* band_trace drawn whether or not the band is switched on
band_trace_always_visible(df_year, band, bands) ==
  LET df_band == SelectSeq(df_year, LAMBDA r : r.Rate_Band = band)
  IN [type |-> "choropleth", name |-> band,
      locations |-> Column(df_band, LAMBDA r : r.Abbrev),
      color |-> BAND_COLORS[band],
      visible |-> TRUE,
      hoverinfo |-> "text",
      text |-> Column(df_band, hover_text)]

\* the choropleth trace of one band (lines 517-533)
band_trace(df_year, band, bands) ==
  LET df_band == SelectSeq(df_year, LAMBDA r : r.Rate_Band = band)
  IN [type |-> "choropleth", name |-> band,
      locations |-> Column(df_band, LAMBDA r : r.Abbrev),
      color |-> BAND_COLORS[band],
      visible |-> band \in Range(bands),
      hoverinfo |-> "text",
      text |-> Column(df_band, hover_text)]

\* the grey trace of the states whose band is switched off (lines 536-548)
filtered_trace(df_year, bands) ==
  LET df_inactive == SelectSeq(df_year, LAMBDA r : r.Rate_Band \notin Range(bands))
  IN IF Len(df_inactive) > 0
     THEN << [type |-> "choropleth", name |-> "Filtered",
              locations |-> Column(df_inactive, LAMBDA r : r.Abbrev),
              color |-> "#e9ecef",
              visible |-> TRUE,
              hoverinfo |-> "text",
              text |-> Column(df_inactive, filtered_text)] >>
     ELSE <<>>

\* the abbreviation labels and leader lines (lines 551-586)
label_traces(df_year) ==
  LET in_lookup(state) == \E i \in 1..Len(df_year) : df_year[i].State = state
      rate_lookup(state) ==
        df_year[CHOOSE i \in 1..Len(df_year) :
                  /\ df_year[i].State = state
                  /\ \A j \in (i + 1)..Len(df_year) : df_year[j].State # state].Rate
      regular_label(state) ==
        IF in_lookup(state)
        THEN << [type |-> "scattergeo", mode |-> "text",
                 text |-> STATE_ABBREV[state],
                 color |-> IF rate_lookup(state) < 250 THEN "#212529" ELSE "#ffffff",
                 hoverinfo |-> "skip"] >>
        ELSE <<>>
      small_label(state) ==
        IF in_lookup(state)
        THEN << [type |-> "scattergeo", mode |-> "lines", text |-> "",
                 color |-> "#adb5bd", hoverinfo |-> "skip"],
                [type |-> "scattergeo", mode |-> "text",
                 text |-> STATE_ABBREV[state],
                 color |-> "#212529", hoverinfo |-> "skip"] >>
        ELSE <<>>
  IN Flatten([i \in 1..Len(STATE_COORDS) |-> regular_label(STATE_COORDS[i])])
       \o Flatten([i \in 1..Len(SMALL_STATES) |-> small_label(SMALL_STATES[i])])

\* the outline of the selected state (lines 589-598)
outline_trace(selected) ==
  IF ~Falsy(selected) /\ selected \in DOMAIN STATE_ABBREV
  THEN << [type |-> "choropleth", name |-> "",
           locations |-> <<STATE_ABBREV[selected]>>,
           color |-> "rgba(0,0,0,0)",
           visible |-> TRUE,
           hoverinfo |-> "skip",
           text |-> <<>>] >>
  ELSE <<>>

update_map(yr, bands, selected) ==
  LET df_year == df_of_year(yr)
      band_traces ==
        AsList([i \in 1..Len(BAND_ORDER) |-> band_trace(df_year, BAND_ORDER[i], bands)])
  IN [data |-> band_traces \o filtered_trace(df_year, bands)
                 \o label_traces(df_year) \o outline_trace(selected),
      title |-> yr]

\* idxmin giving the last position that holds the minimum
idxmin_last(values, from) ==
  CHOOSE i \in from..Len(values) :
    /\ \A j \in from..Len(values) : values[i] <= values[j]
    /\ \A j \in (i + 1)..Len(values) : values[j] > values[i]

\* Series.idxmin / idxmax: the first position that holds the extreme
idxmin(values, from) ==
  CHOOSE i \in from..Len(values) :
    /\ \A j \in from..Len(values) : values[i] <= values[j]
    /\ \A j \in from..(i - 1) : values[j] > values[i]

idxmax(values, from) ==
  CHOOSE i \in from..Len(values) :
    /\ \A j \in from..Len(values) : values[i] >= values[j]
    /\ \A j \in from..(i - 1) : values[j] < values[i]

RECURSIVE SumSeq(_)
SumSeq(values) ==
  IF Len(values) = 0 THEN 0 ELSE Head(values) + SumSeq(Tail(values))

\* the quotient to the nearest unit, a half going to the even neighbour
round_div(total, n) ==
  LET q == total \div n
      r == total % n
  IN IF 2 * r < n THEN q
     ELSE IF 2 * r > n THEN q + 1
     ELSE IF q % 2 = 0 THEN q ELSE q + 1

\* update_state_stats without the test of line 673: idxmin of an empty
\* column raises
update_state_stats_unguarded(state_name) ==
  IF Falsy(state_name) THEN [kind |-> "prompt"]
  ELSE IF Len(df_of_state(state_name)) = 0
       THEN [kind |-> "ValueError", name |-> state_name]
       ELSE [kind |-> "stats", name |-> state_name]

update_state_stats(state_name) ==
  IF Falsy(state_name) THEN [kind |-> "prompt"]
  ELSE LET df_state == df_of_state(state_name)
       IN IF Len(df_state) = 0 THEN [kind |-> "no data", name |-> state_name]
          ELSE LET rate == Column(df_state, LAMBDA r : r.Rate)
                   \* Rate.diff(): position 1 has no value
                   change == AsList([i \in 1..Len(rate) |->
                                IF i = 1 THEN 0 ELSE rate[i] - rate[i - 1]])
                   min_at == idxmin(rate, 1)
                   max_at == idxmax(rate, 1)
                   inc == idxmax(change, 2)
                   dec == idxmin(change, 2)
               IN [kind |-> "stats", name |-> state_name,
                   minimum |-> fmt1(rate[min_at]),
                   min_year |-> df_state[min_at].Year,
                   maximum |-> fmt1(rate[max_at]),
                   max_year |-> df_state[max_at].Year,
                   average |-> fmt1(round_div(SumSeq(rate), Len(rate))),
                   increase |-> <<"+">> \o fmt1(change[inc]),
                   inc_years |-> <<df_state[inc].Year - 1, df_state[inc].Year>>,
                   decrease |-> fmt1(change[dec]),
                   dec_years |-> <<df_state[dec].Year - 1, df_state[dec].Year>>]

\* Series.rank(ascending=False).astype(int): tied values take the mean of
\* the places they fill, and the conversion drops the fraction
rank_descending(values, i) ==
  LET greater == Cardinality({j \in 1..Len(values) : values[j] > values[i]})
      equal == Cardinality({j \in 1..Len(values) : values[j] = values[i]})
  IN (2 * greater + equal + 1) \div 2

update_ranking(state_name, yr) ==
  IF Falsy(state_name) THEN <<>>
  ELSE LET df_year == df_of_year(yr)
           rate == Column(df_year, LAMBDA r : r.Rate)
           mine == {i \in 1..Len(df_year) : df_year[i].State = state_name}
       IN IF mine # {}
          THEN LET first == CHOOSE i \in mine : \A j \in mine : i <= j
               IN <<"Rank in ", ToString(yr), ": #",
                    ToString(rank_descending(rate, first)),
                    " of ", ToString(Len(df_year))>>
          ELSE <<>>

\* sort_values("Rate", ascending=True); equal rates keep their order
RECURSIVE sort_by_rate(_)
sort_by_rate(df) ==
  IF Len(df) <= 1 THEN df
  ELSE LET rest == sort_by_rate(SubSeq(df, 1, Len(df) - 1))
           last == df[Len(df)]
           before == SelectSeq(rest, LAMBDA r : r.Rate <= last.Rate)
           after == SelectSeq(rest, LAMBDA r : r.Rate > last.Rate)
       IN before \o <<last>> \o after

update_regional_chart(state_name, yr) ==
  IF Falsy(state_name)
  THEN [annotation |-> "Select a state", bars |-> <<>>, title |-> <<>>]
  ELSE LET state_data == df_of_state_year(state_name, yr)
       IN IF Len(state_data) = 0
          THEN [annotation |-> "", bars |-> <<>>, title |-> <<>>]
          ELSE LET region == state_data[1].Region
                   df_region == sort_by_rate(SelectSeq(df_of_year(yr),
                                  LAMBDA r : region_eq(r.Region, region)))
               IN [annotation |-> "",
                   bars |-> Column(df_region, LAMBDA r :
                              [State |-> r.State, Rate |-> r.Rate,
                               color |-> IF r.State = state_name
                                         THEN "#0d6efd" ELSE "#adb5bd"]),
                   title |-> <<region, " (", ToString(yr), ")">>]

\* the national series of df_usa_focus: one row per year
UsaRates == [y \in FocusYears |-> 140 + 2 * ((y - 2000) % 3)]

df_usa_focus == AsList([i \in 1..24 |-> [Year |-> 1999 + i, Rate |-> UsaRates[1999 + i]]])

\* the two lines of the trend chart; the state's line has a point per row
update_state_trend(state_name) ==
  IF Falsy(state_name)
  THEN [annotation |-> "Select a state", traces |-> <<>>]
  ELSE LET df_state == df_of_state(state_name)
       IN [annotation |-> "",
           traces |->
             << [name |-> "US Average",
                 x |-> Column(df_usa_focus, LAMBDA r : r.Year),
                 y |-> Column(df_usa_focus, LAMBDA r : r.Rate)],
                [name |-> state_name,
                 x |-> Column(df_state, LAMBDA r : r.Year),
                 y |-> Column(df_state, LAMBDA r : r.Rate)] >>]

\* every derivation callback, run on the current inputs
Render(yr, bands, selected) ==
  [map |-> update_map(yr, bands, selected),
   stats |-> update_state_stats(selected),
   ranking |-> update_ranking(selected, yr),
   trend |-> update_state_trend(selected),
   regional |-> update_regional_chart(selected, yr)]

\* the callbacks with Input active-bands.data
RenderBands(old, yr, bands, selected) ==
  [old EXCEPT !.map = update_map(yr, bands, selected)]

\* the callbacks with Input year-slider.value
RenderYear(old, yr, bands, selected) ==
  [old EXCEPT !.map = update_map(yr, bands, selected),
              !.ranking = update_ranking(selected, yr),
              !.regional = update_regional_chart(selected, yr)]

\* before the first render the outputs are empty
NotRendered ==
  [map |-> [data |-> <<>>, title |-> 0],
   stats |-> [kind |-> "none"],
   ranking |-> <<>>,
   trend |-> [annotation |-> "", traces |-> <<>>],
   regional |-> [annotation |-> "", bars |-> <<>>, title |-> <<>>]]

(* --------------------------------------------------------------- inputs *)
\* the source table the specifications start from unless they draw their own
BaseCodes ==
  [s \in DatasetStates |->
     CASE s = "Texas" -> "WSC"
       [] s = "Ohio" -> "ENC"
       [] s = "Vermont" -> "NE"
       [] s = "Alaska" -> "P"
       [] s = "Maine" -> "NE"]

StateIndex(s) == CHOOSE i \in 1..NumStates : StateOrder[i] = s

BaseRates ==
  [s \in DatasetStates |->
     [y \in FocusYears |-> 90 + 55 * (StateIndex(s) - 1) + 3 * ((y - 2000) % 5)]]

\* what a click on the map can carry; the states it names are the first
\* two rows of the table
ClickStates == {StateRows[1][1], StateRows[2][1]}

Identifiers == {<<>>} \cup {<<s>> : s \in ClickStates \cup {"Atlantis", None}}

Texts ==
  {<<>>, <<"Atlantis", "<br>", "Rate">>, <<"<br>", "Rate">>}
    \cup {<<s, "<br>", "Rate", "<br>", "Region">> : s \in ClickStates}
    \cup {<<s, " (filtered)">> : s \in ClickStates}

Locations == {"", "ZZ"} \cup {STATE_ABBREV[s] : s \in ClickStates}

Points ==
  {<<>>}
    \cup [text : Texts]
    \cup [location : Locations]
    \cup [text : Texts, location : Locations]
    \cup [customdata : Identifiers]
    \cup [customdata : Identifiers, text : Texts, location : Locations]

ClickPayloads == {<<>>, <<[points |-> <<>>]>>} \cup {<<[points |-> <<p>>]>> : p \in Points}

(* -------------------------------------------------------------- actions *)
\* the layout, before any callback has run
InitLayout ==
  /\ loaded = FALSE
  /\ active_bands = BAND_ORDER
  /\ year = 2023
  /\ selected_state = None
  /\ disabled = TRUE
  /\ interval = 700
  /\ n_clicks = NoCount
  /\ n_intervals = NoCount
  /\ clickData = <<>>
  /\ triggered = <<>>
  /\ views = NotRendered
  /\ pending = <<>>

Init ==
  /\ InitLayout
  /\ region_code = BaseCodes
  /\ rates = BaseRates

\* The initial calls of the callbacks without prevent_initial_call.
PageLoad ==
  /\ ~loaded
  /\ loaded' = TRUE
  /\ disabled' = toggle_play(n_clicks, disabled)
  /\ interval' = update_speed(interval)
  /\ year' = advance_year(n_intervals, year, disabled)
  /\ UNCHANGED <<active_bands, selected_state, n_clicks, n_intervals,
                 clickData, triggered>>
  /\ UNCHANGED <<dataset, pending>>
  /\ views' = Render(year', active_bands', selected_state')

LegendClick(band) ==
  /\ loaded
  /\ triggered' = <<"legend-", band>>
  /\ active_bands' = toggle_band(triggered', active_bands)
  /\ UNCHANGED <<loaded, year, selected_state, disabled, interval,
                 n_clicks, n_intervals, clickData>>
  /\ UNCHANGED <<dataset, pending>>
  /\ views' = RenderBands(views, year', active_bands', selected_state')

\* slip: a year change resets the band filter
YearSlider_resets_bands(value) ==
  /\ loaded
  /\ triggered' = <<"year-slider">>
  /\ year' = value
  /\ active_bands' = BAND_ORDER
  /\ UNCHANGED <<loaded, selected_state, disabled, interval,
                 n_clicks, n_intervals, clickData>>
  /\ UNCHANGED <<dataset, pending>>
  /\ views' = RenderYear(views, year', active_bands', selected_state')

YearSlider(value) ==
  /\ loaded
  /\ triggered' = <<"year-slider">>
  /\ year' = value
  /\ UNCHANGED <<loaded, active_bands, selected_state, disabled, interval,
                 n_clicks, n_intervals, clickData>>
  /\ UNCHANGED <<dataset, pending>>
  /\ views' = RenderYear(views, year', active_bands', selected_state')

PlayButton ==
  /\ loaded
  /\ n_clicks < MaxPlayClicks
  /\ triggered' = <<"play-button">>
  /\ n_clicks' = IF n_clicks = NoCount THEN 1 ELSE n_clicks + 1
  /\ disabled' = toggle_play(n_clicks', disabled)
  /\ UNCHANGED <<loaded, active_bands, year, selected_state, interval,
                 n_intervals, clickData>>
  /\ UNCHANGED <<dataset, pending>>
  /\ UNCHANGED views

\* slip: the new period also fires a tick
SpeedSlider_ticks(speed) ==
  /\ loaded
  /\ triggered' = <<"speed-slider">>
  /\ interval' = update_speed(speed)
  /\ year' = advance_year(1, year, disabled)
  /\ UNCHANGED <<loaded, active_bands, selected_state, disabled,
                 n_clicks, n_intervals, clickData>>
  /\ UNCHANGED <<dataset, pending>>
  /\ views' = RenderYear(views, year', active_bands', selected_state')

SpeedSlider(speed) ==
  /\ loaded
  /\ triggered' = <<"speed-slider">>
  /\ interval' = update_speed(speed)
  /\ UNCHANGED <<loaded, active_bands, year, selected_state, disabled,
                 n_clicks, n_intervals, clickData>>
  /\ UNCHANGED <<dataset, pending>>
  /\ UNCHANGED views

\* A timer tick.  The timer runs while the interval is enabled; a tick
\* dispatched just before a stop gesture is still delivered after it.
PlayInterval ==
  /\ loaded
  /\ ~disabled \/ n_clicks # NoCount
  /\ n_intervals < MaxIntervals
  /\ triggered' = <<"play-interval">>
  /\ n_intervals' = IF n_intervals = NoCount THEN 1 ELSE n_intervals + 1
  /\ year' = advance_year(n_intervals', year, disabled)
  /\ UNCHANGED <<loaded, active_bands, selected_state, disabled, interval,
                 n_clicks, clickData>>
  /\ UNCHANGED <<dataset, pending>>
  /\ views' = RenderYear(views, year', active_bands', selected_state')

\* slip: a selection also rewinds the year slider
MapClick_resets_year(payload) ==
  /\ loaded
  /\ triggered' = <<"choropleth-map">>
  /\ clickData' = payload
  /\ selected_state' = handle_state_click(triggered', clickData', selected_state)
  /\ year' = 2023
  /\ UNCHANGED <<loaded, active_bands, disabled, interval,
                 n_clicks, n_intervals>>
  /\ UNCHANGED <<dataset, pending>>
  /\ views' = RenderYear(views, year', active_bands', selected_state')

MapClick(payload) ==
  /\ loaded
  /\ triggered' = <<"choropleth-map">>
  /\ clickData' = payload
  /\ selected_state' = handle_state_click(triggered', clickData', selected_state)
  /\ UNCHANGED <<loaded, active_bands, year, disabled, interval,
                 n_clicks, n_intervals>>
  /\ UNCHANGED <<dataset, pending>>
  /\ views' = Render(year', active_bands', selected_state')

\* A timer tick of a clock that runs on without end: the timer fires only
\* while it is enabled, and n_intervals, which advance_year only tests
\* against None, is kept modulo MaxCycles turns of the 24 years.
PlayIntervalForever ==
  /\ loaded
  /\ ~disabled
  /\ triggered' = <<"play-interval">>
  /\ n_intervals' = IF n_intervals = NoCount THEN 1
                    ELSE (n_intervals % (24 * MaxCycles)) + 1
  /\ year' = advance_year(n_intervals', year, disabled)
  /\ UNCHANGED <<loaded, active_bands, selected_state, disabled, interval,
                 n_clicks, clickData>>
  /\ UNCHANGED <<dataset, pending>>
  /\ views' = RenderYear(views, year', active_bands', selected_state')

(* ------------------------------------------------- requests and answers *)
\* A callback runs on the server: the page sends the Input and State values
\* it holds when the Input changes, and writes the Output when the answer
\* arrives.  Until then the page goes on taking gestures and timer events.
Request(callback, id, count) ==
  [callback |-> callback, triggered |-> id, count |-> count,
   current_year |-> year, is_disabled |-> disabled,
   current_bands |-> active_bands]

Remove(requests, i) ==
  SubSeq(requests, 1, i - 1) \o SubSeq(requests, i + 1, Len(requests))

\* the timer fires: n_intervals changes and advance_year is requested
TickRequest ==
  /\ loaded
  /\ ~disabled
  /\ n_intervals < MaxIntervals
  /\ Len(pending) < MaxPending
  /\ n_intervals' = IF n_intervals = NoCount THEN 1 ELSE n_intervals + 1
  /\ pending' = Append(pending, Request("advance_year", <<"play-interval">>, n_intervals'))
  /\ UNCHANGED <<loaded, active_bands, year, selected_state, disabled, interval,
                 n_clicks, clickData, triggered, views>>
  /\ UNCHANGED dataset

\* the answer of advance_year sets year-slider.value
TickResponse ==
  \E i \in 1..Len(pending) :
    /\ pending[i].callback = "advance_year"
    /\ triggered' = pending[i].triggered
    /\ year' = advance_year(pending[i].count, pending[i].current_year,
                            pending[i].is_disabled)
    /\ pending' = Remove(pending, i)
    /\ UNCHANGED <<loaded, active_bands, selected_state, disabled, interval,
                   n_clicks, n_intervals, clickData>>
    /\ UNCHANGED dataset
    /\ views' = RenderYear(views, year', active_bands', selected_state')

\* a click on the play button: toggle_play is requested
PlayRequest ==
  /\ loaded
  /\ n_clicks < MaxPlayClicks
  /\ Len(pending) < MaxPending
  /\ n_clicks' = IF n_clicks = NoCount THEN 1 ELSE n_clicks + 1
  /\ pending' = Append(pending, Request("toggle_play", <<"play-button">>, n_clicks'))
  /\ UNCHANGED <<loaded, active_bands, year, selected_state, disabled, interval,
                 n_intervals, clickData, triggered, views>>
  /\ UNCHANGED dataset

PlayResponse ==
  \E i \in 1..Len(pending) :
    /\ pending[i].callback = "toggle_play"
    /\ triggered' = pending[i].triggered
    /\ disabled' = toggle_play(pending[i].count, pending[i].is_disabled)
    /\ pending' = Remove(pending, i)
    /\ UNCHANGED <<loaded, active_bands, year, selected_state, interval,
                   n_clicks, n_intervals, clickData, views>>
    /\ UNCHANGED dataset

\* a click on a legend item: toggle_band is requested
LegendRequest(band) ==
  /\ loaded
  /\ Len(pending) < MaxPending
  /\ pending' = Append(pending, Request("toggle_band", <<"legend-", band>>, NoCount))
  /\ UNCHANGED <<loaded, active_bands, year, selected_state, disabled, interval,
                 n_clicks, n_intervals, clickData, triggered, views>>
  /\ UNCHANGED dataset

LegendResponse ==
  \E i \in 1..Len(pending) :
    /\ pending[i].callback = "toggle_band"
    /\ triggered' = pending[i].triggered
    /\ active_bands' = toggle_band(pending[i].triggered, pending[i].current_bands)
    /\ pending' = Remove(pending, i)
    /\ UNCHANGED <<loaded, year, selected_state, disabled, interval,
                   n_clicks, n_intervals, clickData>>
    /\ UNCHANGED dataset
    /\ views' = RenderBands(views, year', active_bands', selected_state')

(* ------------------------------------------------------- specifications *)
\* band toggles only, every legend item
NextBands ==
  \/ PageLoad
  \/ \E band \in Range(BAND_ORDER) : LegendClick(band)

SpecBands == Init /\ [][NextBands]_vars

\* the year, the animation clock and its speed
NextAnim ==
  \/ PageLoad
  \/ \E value \in SliderYears : YearSlider(value)
  \/ PlayButton
  \/ \E speed \in SliderSpeeds : SpeedSlider(speed)
  \/ PlayInterval

SpecAnim == Init /\ [][NextAnim]_vars

\* map clicks only, every payload shape
NextClick ==
  \/ PageLoad
  \/ \E payload \in ClickPayloads : MapClick(payload)

SpecClick == Init /\ [][NextClick]_vars

\* every gesture together, each drawn from a few representative inputs
SomeBands == {BAND_ORDER[i] : i \in 1..NumLegend}
SomeYears == {2022, 2023}
SomeSpeeds == {200}
SomePayloads ==
  { <<[points |-> <<[text |-> <<"Texas", "<br>", "Rate", "<br>", "Region">>,
                     location |-> "TX"]>>]>>,
    <<[points |-> <<[text |-> <<"Ohio", " (filtered)">>, location |-> "OH"]>>]>> }

Next ==
  \/ PageLoad
  \/ \E band \in SomeBands : LegendClick(band)
  \/ \E value \in SomeYears : YearSlider(value)
  \/ PlayButton
  \/ \E speed \in SomeSpeeds : SpeedSlider(speed)
  \/ PlayInterval
  \/ \E payload \in SomePayloads : MapClick(payload)

Spec == Init /\ [][Next]_vars

\* the derivations over a source table drawn at start: the gestures that
\* feed them, with the table's rates or region codes drawn per specification
NextViews ==
  \/ PageLoad
  \/ \E band \in SomeBands : LegendClick(band)
  \/ \E value \in SomeYears : YearSlider(value)
  \/ \E payload \in SomePayloads : MapClick(payload)

\* a table with the column of one year replaced
WithYear(table, yr, column) ==
  [s \in DatasetStates |-> [table[s] EXCEPT ![yr] = column[s]]]

\* the 2023 rates drawn so that states tie
RankRates == {120, 150, 180}
RankTables == {WithYear(BaseRates, 2023, column) : column \in [DatasetStates -> RankRates]}

InitRank ==
  /\ InitLayout
  /\ region_code = BaseCodes
  /\ rates \in RankTables

SpecRank == InitRank /\ [][NextViews]_vars

\* the region codes drawn per state: two regions and the case where the
\* extract of line 123 finds no code; the rates fall in table order, so the
\* sort has work to do
RegionCodes == {"WSC", "ENC", NaN}

FallingRates ==
  [s \in DatasetStates |->
     [y \in FocusYears |-> BaseRates[StateOrder[NumStates + 1 - StateIndex(s)]][y]]]

InitRegion ==
  /\ InitLayout
  /\ region_code \in [DatasetStates -> RegionCodes]
  /\ rates = FallingRates

SpecRegion == InitRegion /\ [][NextViews]_vars

\* the 2023 rates of the first two states drawn on and around the
\* thresholds of get_rate_band
BandRates == {0, 99, 100, 149, 150, 199, 200, 249, 250, 299, 300, 350}
NeighbourRates == {100, 300}

MapTables ==
  {WithYear(BaseRates, 2023,
            [s \in DatasetStates |->
               IF s = StateOrder[1] THEN first
               ELSE IF s = StateOrder[2] THEN second
               ELSE BaseRates[s][2023]]) :
     first \in BandRates, second \in NeighbourRates}

InitMap ==
  /\ InitLayout
  /\ region_code = BaseCodes
  /\ rates \in MapTables

SpecMap == InitMap /\ [][NextViews]_vars

\* the first years of the first state's series drawn so that extremes and
\* changes tie and fall on the first years or later ones
StatRates == {90, 96, 102}
StatYears == 2000..2002

StatTables ==
  {[s \in DatasetStates |->
      [y \in FocusYears |->
         IF s = StateOrder[1] /\ y \in StatYears THEN head[y] ELSE BaseRates[s][y]]] :
     head \in [StatYears -> StatRates]}

InitStats ==
  /\ InitLayout
  /\ region_code = BaseCodes
  /\ rates \in StatTables

SpecStats == InitStats /\ [][NextViews]_vars

\* gestures, timer events and answers in any order; one slider position
\* and one legend item are enough to cross a request with a later change
AsyncYears == {2022}
AsyncBands == {BAND_ORDER[1]}

NextAsync ==
  \/ PageLoad
  \/ \E value \in AsyncYears : YearSlider(value)
  \/ TickRequest
  \/ TickResponse
  \/ PlayRequest
  \/ PlayResponse
  \/ \E band \in AsyncBands : LegendRequest(band)
  \/ LegendResponse

SpecAsync == Init /\ [][NextAsync]_vars

\* clicks that select a state of the table and one that selects a name the
\* table does not hold (the identifier is taken as it comes)
EmptyPayloads ==
  SomePayloads \cup {<<[points |-> <<[customdata |-> <<"Atlantis">>]>>]>>}

NextEmpty ==
  \/ PageLoad
  \/ \E band \in SomeBands : LegendClick(band)
  \/ \E value \in SomeYears : YearSlider(value)
  \/ \E payload \in EmptyPayloads : MapClick(payload)

SpecEmpty == Init /\ [][NextEmpty]_vars

\* the running clock: the play button, the speed slider and the timer, which
\* fires again and again while it is enabled; nothing else writes the year
CycleSpeeds == {200, 1500}

NextCycle ==
  \/ PageLoad
  \/ PlayButton
  \/ \E speed \in CycleSpeeds : SpeedSlider(speed)
  \/ PlayIntervalForever

SpecCycle == Init /\ [][NextCycle]_vars /\ WF_vars(PageLoad) /\ WF_vars(PlayIntervalForever)

(* --------------------------------------------------------------- claims *)
Bands == Range(BAND_ORDER)
LegendId(b) == <<"legend-", b>>

\* C1: starting from all six bands active, no sequence of band toggles
\* empties activeBands, and a toggle of the sole remaining active band
\* leaves activeBands as it was.
C1_ActiveBandsNeverEmpty ==
  /\ [](Len(active_bands) >= 1)
  /\ [][\A b \in Bands :
          (active_bands = <<b>> /\ triggered' = LegendId(b))
            => active_bands' = active_bands]_vars

\* the latest gesture was a click on the only active band
C1_Witness ==
  \E b \in Bands : active_bands = <<b>> /\ triggered = LegendId(b)

\* C2: a toggle of b removes exactly b when b is active together with at
\* least one other band, and adds exactly b when b is not active; the
\* membership of every other band stays as it was.
C2_ToggleChangesExactlyB ==
  [][\A b \in Bands :
       triggered' = LegendId(b) =>
         /\ (b \in Range(active_bands) /\ Cardinality(Range(active_bands)) >= 2)
              => Range(active_bands') = Range(active_bands) \ {b}
         /\ b \notin Range(active_bands)
              => Range(active_bands') = Range(active_bands) \cup {b}]_vars

\* the latest gesture removed a band and left exactly two active
C2_Witness ==
  \E b \in Bands :
    /\ triggered = LegendId(b)
    /\ b \notin Range(active_bands)
    /\ Cardinality(Range(active_bands)) = 2

\* C3: for every reachable activeBands and every band b that is not its
\* only member, two toggles of b in a row give back the same set of bands.
C3_ToggleTwiceRestores ==
  \A b \in Bands :
    active_bands # <<b>> =>
      Range(toggle_band(LegendId(b), toggle_band(LegendId(b), active_bands)))
        = Range(active_bands)

\* a band was removed and added again: all six active, in another order
C3_Witness ==
  /\ \E b \in Bands : triggered = LegendId(b) /\ active_bands[Len(active_bands)] = b
  /\ Range(active_bands) = Bands
  /\ active_bands # BAND_ORDER

\* C4: while the clock is Running a tick sets selectedYear to 2000 from
\* 2023 and to selectedYear + 1 from every other year.
C4_TickAdvancesYear ==
  [][(triggered' = <<"play-interval">> /\ n_intervals' # n_intervals /\ ~disabled)
       => year' = IF year = 2023 THEN 2000 ELSE year + 1]_vars

\* a tick of the running clock has wrapped the year
C4_Witness ==
  triggered = <<"play-interval">> /\ ~disabled /\ year = 2000

\* C5: selectedYear is always an integer in 2000..2023.
C5_YearInRange == year \in 2000..2023

\* the year after a wrap and one more tick of the running clock
C5_Witness ==
  /\ triggered = <<"play-interval">>
  /\ ~disabled
  /\ n_intervals >= 2
  /\ year = 2001

\* C6: the clock is Stopped at session start and as long as the play
\* button was never pressed; only a play-button gesture changes
\* Running/Stopped; with no play-button gesture no callback other than the
\* year selector changes selectedYear.
C6_ClockFollowsPlayButton ==
  /\ [](n_clicks = NoCount => disabled)
  /\ [][disabled' # disabled
          => (triggered' = <<"play-button">> /\ n_clicks' # n_clicks)]_vars
  /\ [][n_clicks' = NoCount
          => (year' = year \/ triggered' = <<"year-slider">>)]_vars

\* the first play-button gesture has started the clock
C6_Witness ==
  triggered = <<"play-button">> /\ n_clicks = 1 /\ ~disabled

\* C7: a play-button gesture leaves selectedYear as it was, and so does a
\* tick delivered while the clock is Stopped.
C7_StoppedKeepsYear ==
  /\ [][triggered' = <<"play-button">> /\ n_clicks' # n_clicks
          => year' = year]_vars
  /\ [][(triggered' = <<"play-interval">> /\ n_intervals' # n_intervals /\ disabled)
          => year' = year]_vars

\* a tick was delivered after the clock had been started and stopped
C7_Witness ==
  /\ triggered = <<"play-interval">>
  /\ disabled
  /\ n_clicks >= 2
  /\ n_intervals >= 1

\* C8: a speed change fires no tick and leaves selectedYear, the
\* Running/Stopped state, selectedState and activeBands as they were.
C8_SpeedChangesOnlyPeriod ==
  [][triggered' = <<"speed-slider">>
       => UNCHANGED <<year, disabled, selected_state, active_bands,
                      n_intervals, n_clicks, clickData>>]_vars

\* the speed was changed while the clock runs, away from the defaults
C8_Witness ==
  /\ triggered = <<"speed-slider">>
  /\ interval # 700
  /\ ~disabled
  /\ year # 2023
  /\ selected_state # None
  /\ active_bands # BAND_ORDER

\* the payload shapes of C9, stated on the payload alone
NoIdentifier(p) ==
  "customdata" \notin DOMAIN p \/ p.customdata = <<>>

NoStateText(p) ==
  \/ "text" \notin DOMAIN p
  \/ ~(Len(p.text) >= 2 /\ p.text[1] \in DatasetStates /\ p.text[2] = "<br>")

NoKnownLocation(p) ==
  \/ "location" \notin DOMAIN p
  \/ p.location \notin {STATE_ABBREV[s] : s \in DatasetStates}

Unresolvable(cd) ==
  \/ cd = <<>>
  \/ Len(cd[1].points) = 0
  \/ LET p == cd[1].points[1]
     IN NoIdentifier(p) /\ NoStateText(p) /\ NoKnownLocation(p)

\* C9: a map click with an empty payload, or one with no identifier, no
\* text naming a known state before the separator and no known location
\* code, leaves selectedState as it was.
C9_UnresolvableClickRetains ==
  [][(triggered' = <<"choropleth-map">> /\ Unresolvable(clickData'))
       => selected_state' = selected_state]_vars

\* an unrecognised point was clicked while a state was selected
C9_Witness ==
  /\ triggered = <<"choropleth-map">>
  /\ clickData # <<>>
  /\ Len(clickData[1].points) = 1
  /\ Unresolvable(clickData)
  /\ selected_state \in DatasetStates

\* C10: selectedState is null or a state name of the Dataset Store.
C10_SelectedStateValid ==
  selected_state = None \/ selected_state \in DatasetStates

\* the state whose abbreviation is the location code
StateOfCode(code) == CHOOSE s \in DatasetStates : STATE_ABBREV[s] = code

\* C11: a click resolves by the identifier when the payload has one;
\* otherwise by the text before the separator when that names a known
\* state; otherwise by the known location code.
C11_ResolutionOrder ==
  [][(/\ triggered' = <<"choropleth-map">>
      /\ clickData' # <<>>
      /\ Len(clickData'[1].points) > 0)
       => LET p == clickData'[1].points[1]
          IN /\ ~NoIdentifier(p) => selected_state' = p.customdata[1]
             /\ (NoIdentifier(p) /\ ~NoStateText(p))
                  => selected_state' = p.text[1]
             /\ (NoIdentifier(p) /\ NoStateText(p) /\ ~NoKnownLocation(p))
                  => selected_state' = StateOfCode(p.location)]_vars

\* the click named one state in its text and another by its location code,
\* and the text won
C11_Witness ==
  /\ triggered = <<"choropleth-map">>
  /\ clickData # <<>>
  /\ Len(clickData[1].points) > 0
  /\ LET p == clickData[1].points[1]
     IN /\ NoIdentifier(p) /\ ~NoStateText(p) /\ ~NoKnownLocation(p)
        /\ StateOfCode(p.location) # p.text[1]
        /\ selected_state = p.text[1]

\* C12: a map click leaves selectedYear, activeBands and the animation
\* state as they were.
C12_ClickWritesOnlySelection ==
  [][triggered' = <<"choropleth-map">>
       => UNCHANGED <<year, active_bands, disabled, interval,
                      n_clicks, n_intervals>>]_vars

\* a click selected a state while the clock runs, away from the defaults
C12_Witness ==
  /\ triggered = <<"choropleth-map">>
  /\ selected_state \in DatasetStates
  /\ year # 2023
  /\ ~disabled
  /\ active_bands # BAND_ORDER

\* C20: only a band toggle changes activeBands.
C20_ToggleIsSoleMutator ==
  [][active_bands' # active_bands
       => \E b \in Bands : triggered' = LegendId(b)]_vars

\* the bands were changed, and a slider, the clock or a click acted after
C20_Witness ==
  /\ active_bands # BAND_ORDER
  /\ triggered \in {<<"year-slider">>, <<"play-interval">>, <<"choropleth-map">>}
  /\ n_clicks # NoCount
  /\ interval # 700

\* the state has a row in df_suicide_focus for the year
HasRecord(state, yr) == state \in DatasetStates /\ yr \in FocusYears

StrictlyGreater(state, yr) ==
  {t \in DatasetStates : rates[t][yr] > rates[state][yr]}

\* C13: for a selected state with a record in the selected year the rank
\* shown is 1 + the number of states with a strictly greater rate that
\* year, so tied states share a rank and all states tied at the top have
\* rank 1.
C13_RankCountsStrictlyGreater ==
  (loaded /\ HasRecord(selected_state, year)) =>
    views.ranking =
      <<"Rank in ", ToString(year), ": #",
        ToString(1 + Cardinality(StrictlyGreater(selected_state, year))),
        " of ", ToString(Cardinality(DatasetStates))>>

\* the states whose region is the region of the given state
SameRegion(state) ==
  {t \in DatasetStates : map_region(region_code[t]) = map_region(region_code[state])}

\* C14: whenever a state is selected and has a record for the selected
\* year, the regional comparison rows are exactly the states sharing its
\* region that year, the selected state is among them, and they are sorted
\* ascending by rate; also for a state whose region lookup gave no name.
C14_RegionalRows ==
  (loaded /\ HasRecord(selected_state, year)) =>
    LET bars == views.regional.bars
        names == {bars[i].State : i \in 1..Len(bars)}
    IN /\ names = SameRegion(selected_state)
       /\ Len(bars) = Cardinality(names)
       /\ selected_state \in names
       /\ \A i, j \in 1..Len(bars) : i < j => bars[i].Rate <= bars[j].Rate
       /\ \A i \in 1..Len(bars) : bars[i].Rate = rates[bars[i].State][year]

\* the part of C14 that holds: for a state with a region name
C14_NamedRegionRows ==
  (loaded /\ HasRecord(selected_state, year)
     /\ map_region(region_code[selected_state]) # NaN) =>
    LET bars == views.regional.bars
        names == {bars[i].State : i \in 1..Len(bars)}
    IN /\ names = SameRegion(selected_state)
       /\ Len(bars) = Cardinality(names)
       /\ selected_state \in names
       /\ \A i, j \in 1..Len(bars) : i < j => bars[i].Rate <= bars[j].Rate

\* the bands as intervals of rates in tenths: lower bound included, upper
\* bound excluded, the top band unbounded
BandFloor ==
  [b \in Bands |->
     CASE b = "< 10" -> 0 [] b = "10-15" -> 100 [] b = "15-20" -> 150
       [] b = "20-25" -> 200 [] b = "25-30" -> 250 [] b = "> 30" -> 300]

BandCeiling ==
  [b \in Bands \ {"> 30"} |->
     CASE b = "< 10" -> 100 [] b = "10-15" -> 150 [] b = "15-20" -> 200
       [] b = "20-25" -> 250 [] b = "25-30" -> 300]

InBand(b, rate) ==
  /\ BandFloor[b] <= rate
  /\ b # "> 30" => rate < BandCeiling[b]

BandIndex(b) == CHOOSE k \in 1..Len(BAND_ORDER) : BAND_ORDER[k] = b

\* the band traces of the map that list the state
BandsShowing(state) ==
  {b \in Bands :
     \E k \in 1..Len(views.map.data) :
        /\ views.map.data[k].type = "choropleth"
        /\ views.map.data[k].name = b
        /\ STATE_ABBREV[state] \in Range(views.map.data[k].locations)}

\* C15: every rate r >= 0 is classified into exactly one of the six bands,
\* the one whose half-open interval [10k, 10k+5) holds it (below 10 the
\* first, from 30 on the top one), and a larger rate never gets a lower
\* band.
C15_ClassifyPartition ==
  loaded =>
    /\ \A s \in DatasetStates :
         /\ BandsShowing(s) = {b \in Bands : InBand(b, rates[s][year])}
         /\ Cardinality(BandsShowing(s)) = 1
    /\ \A s, t \in DatasetStates :
         rates[s][year] <= rates[t][year] =>
           \A b \in BandsShowing(s), c \in BandsShowing(t) :
              BandIndex(b) <= BandIndex(c)

\* a rate on a threshold and one just below it are on the map together
C15_Witness ==
  /\ loaded
  /\ \E s, t \in DatasetStates :
       /\ rates[s][year] = 299 /\ BandsShowing(s) = {"25-30"}
       /\ rates[t][year] = 300 /\ BandsShowing(t) = {"> 30"}

\* the years that have a predecessor in the range
DeltaYears == FocusYears \ {2000}

Delta(state, y) == rates[state][y] - rates[state][y - 1]

Least(S) == CHOOSE x \in S : \A y \in S : x <= y
Greatest(S) == CHOOSE x \in S : \A y \in S : x >= y

\* C16: for a selected state the detail stats give the minimum and the
\* maximum rate with the year of the extremal row, and the largest
\* single-year increase and decrease rate[y] - rate[y-1] with the pair
\* (y-1, y), y never the first year of the range; among tied rows the
\* earliest year is reported.
C16_DetailStats ==
  (loaded /\ selected_state \in DatasetStates) =>
    LET s == selected_state
        lo == Least({rates[s][y] : y \in FocusYears})
        hi == Greatest({rates[s][y] : y \in FocusYears})
        up == Greatest({Delta(s, y) : y \in DeltaYears})
        down == Least({Delta(s, y) : y \in DeltaYears})
        lo_year == Least({y \in FocusYears : rates[s][y] = lo})
        hi_year == Least({y \in FocusYears : rates[s][y] = hi})
        up_year == Least({y \in DeltaYears : Delta(s, y) = up})
        down_year == Least({y \in DeltaYears : Delta(s, y) = down})
    IN /\ views.stats.kind = "stats"
       /\ views.stats.name = s
       /\ views.stats.minimum = fmt1(lo) /\ views.stats.min_year = lo_year
       /\ views.stats.maximum = fmt1(hi) /\ views.stats.max_year = hi_year
       /\ views.stats.increase = <<"+">> \o fmt1(up)
       /\ views.stats.inc_years = <<up_year - 1, up_year>>
       /\ views.stats.decrease = fmt1(down)
       /\ views.stats.dec_years = <<down_year - 1, down_year>>

\* stats shown for a series whose minimum is held by several years and
\* whose largest fall happens first into the second year and again later
C16_Witness ==
  /\ loaded
  /\ selected_state \in DatasetStates
  /\ views.stats.kind = "stats"
  /\ \E y \in FocusYears :
       /\ y > views.stats.min_year
       /\ rates[selected_state][y] = rates[selected_state][views.stats.min_year]
  /\ views.stats.dec_years = <<2000, 2001>>
  /\ \E y \in DeltaYears \ {2001} : Delta(selected_state, y) = Delta(selected_state, 2001)

\* the traces that paint the state: drawn choropleth traces that list it
\* and whose colour is not the transparent one of the selection outline
FillsOf(state) ==
  {k \in 1..Len(views.map.data) :
     /\ views.map.data[k].type = "choropleth"
     /\ views.map.data[k].visible
     /\ views.map.data[k].color # "rgba(0,0,0,0)"
     /\ STATE_ABBREV[state] \in Range(views.map.data[k].locations)}

\* C17: for every selected year and every active_bands each state with a
\* record that year has exactly one visible fill, of its band's colour if
\* the band is in active_bands and of the neutral filtered colour
\* otherwise, and it is in the filtered trace exactly when its band is not
\* in active_bands.
C17_OneVisibleFill ==
  loaded =>
    \A s \in DatasetStates :
      LET band == CHOOSE b \in Bands : InBand(b, rates[s][year])
          active == band \in Range(active_bands)
      IN \E k \in FillsOf(s) :
           /\ FillsOf(s) = {k}
           /\ views.map.data[k].color = IF active THEN BAND_COLORS[band] ELSE "#e9ecef"
           /\ (views.map.data[k].name = "Filtered") <=> ~active

\* the map drawn with one state filtered out and another one not
C17_Witness ==
  /\ loaded
  /\ \E s, t \in DatasetStates :
       /\ \E k \in FillsOf(s) : views.map.data[k].name = "Filtered"
       /\ \E k \in FillsOf(t) : views.map.data[k].name \in Range(active_bands)
       /\ selected_state = s

\* where the trace lists the state
PlaceIn(trace, state) ==
  CHOOSE i \in 1..Len(trace.locations) : trace.locations[i] = STATE_ABBREV[state]

\* the fragments occur in the text in this order, side by side
Contains(text, fragments) ==
  \E j \in 0..(Len(text) - Len(fragments)) :
     SubSeq(text, j + 1, j + Len(fragments)) = fragments

\* C18: for every state shown on the map the hover text contains the
\* state name, its rate and its region, whether or not the state's band is
\* in active_bands.
C18_HoverText ==
  loaded =>
    \A s \in DatasetStates : \A k \in FillsOf(s) :
      LET trace == views.map.data[k]
          text == trace.text[PlaceIn(trace, s)]
      IN /\ trace.hoverinfo = "text"
         /\ Contains(text, <<s>>)
         /\ Contains(text, fmt1(rates[s][year]))
         /\ Contains(text, <<map_region(region_code[s])>>)

\* the part of C18 that holds: the states whose band is in active_bands
C18_HoverTextOfActive ==
  loaded =>
    \A s \in DatasetStates : \A k \in FillsOf(s) :
      LET trace == views.map.data[k]
          text == trace.text[PlaceIn(trace, s)]
      IN trace.name # "Filtered" =>
           /\ trace.hoverinfo = "text"
           /\ Contains(text, <<s>>)
           /\ Contains(text, fmt1(rates[s][year]))
           /\ Contains(text, <<map_region(region_code[s])>>)

\* what the handler of a request gives on the values the page holds now
AppliedToCurrent(req) ==
  CASE req.callback = "advance_year" ->
         /\ year' = advance_year(req.count, year, disabled)
         /\ UNCHANGED <<active_bands, disabled>>
    [] req.callback = "toggle_play" ->
         /\ disabled' = toggle_play(req.count, disabled)
         /\ UNCHANGED <<active_bands, year>>
    [] req.callback = "toggle_band" ->
         /\ active_bands' = toggle_band(req.triggered, active_bands)
         /\ UNCHANGED <<year, disabled>>

\* C19: every mutation of the interaction state is applied to the state the
\* previously applied mutation left: whenever the result of a handler is
\* written, it is the handler's result on the values then current, so no
\* result computed from an older state overwrites a newer value and no
\* update is lost.
C19_Serialized ==
  [][\A i \in 1..Len(pending) :
       pending' = Remove(pending, i) => AppliedToCurrent(pending[i])]_vars

YearAfter(k) == 2000 + ((23 + k) % 24)

\* C23: while the clock stays running and ticks keep coming, with no other
\* writer of the year, every year of 2000..2023 is selected again and
\* again; the year is fixed by the number of ticks modulo 24, so 24
\* consecutive ticks, and no fewer, bring it back to where it was.
C23_YearsCycle ==
  /\ [](n_intervals # NoCount => year = YearAfter(n_intervals))
  /\ <>[](~disabled) => \A y \in FocusYears : []<>(year = y)

\* the clock has run a whole turn and the year is the layout's again
C23_Witness ==
  /\ loaded
  /\ ~disabled
  /\ n_intervals = 24
  /\ year = 2023

\* the choropleth traces of the map as drawn
ChoroplethTraces ==
  {k \in 1..Len(views.map.data) : views.map.data[k].type = "choropleth"}

\* what a click on point i of the trace carries: the point's text, if the
\* trace sets any, and its location code
PointPayload(trace, i) ==
  IF Len(trace.text) = 0
  THEN [location |-> trace.locations[i]]
  ELSE [text |-> trace.text[i], location |-> trace.locations[i]]

\* C24: for every choropleth point the map emits for a state (in a band
\* trace, in the filtered trace or as the selection outline), click
\* resolution on that point's text and location code gives exactly that
\* state, whatever state was selected before.
C24_PointRoundTrip ==
  loaded =>
    \A s \in DatasetStates : \A k \in ChoroplethTraces :
      \A i \in 1..Len(views.map.data[k].locations) :
        views.map.data[k].locations[i] = STATE_ABBREV[s] =>
          \A current \in DatasetStates \cup {None} :
            handle_state_click(<<"choropleth-map">>,
                               <<[points |-> <<PointPayload(views.map.data[k], i)>>]>>,
                               current) = s

\* a click carried the payload of a point of the filtered trace and the
\* state is now selected and outlined
C24_Witness ==
  /\ loaded
  /\ triggered = <<"choropleth-map">>
  /\ selected_state \in DatasetStates
  /\ \E k \in ChoroplethTraces :
       /\ views.map.data[k].name = "Filtered"
       /\ \E i \in 1..Len(views.map.data[k].locations) :
            /\ clickData = <<[points |-> <<PointPayload(views.map.data[k], i)>>]>>
            /\ views.map.data[k].locations[i] = STATE_ABBREV[selected_state]
  /\ \E k \in ChoroplethTraces :
       /\ views.map.data[k].color = "rgba(0,0,0,0)"
       /\ views.map.data[k].locations = <<STATE_ABBREV[selected_state]>>

====
